---- MODULE Spec2Model ----
(***************************************************************************)
(* Model of roswtf's py_pip_deb_checks.py: the three warning rules over    *)
(* the fixed registry of core ROS Python packages, the predicates they     *)
(* use, and wtf_check, which dispatches them to the host framework.        *)
(*                                                                         *)
(* A Python string is modelled as the sequence of the pieces that were     *)
(* concatenated to build it ('' is <<>>), a file path as its sequence of   *)
(* characters, and a Python value as a record [t, b, s].                   *)
(***************************************************************************)
EXTENDS Integers, Sequences, FiniteSets, TLC

VARIABLES
    importable,          \* environment: registry names the loader can find
    module_file,         \* environment: __file__ of each loadable module
    dpkg_db,             \* environment: native packages `dpkg -l` finds
    host_os,             \* environment: what OsDetect.detect_os()[0] gives
    order,               \* environment: iteration order of the registry dict
    py_to_deb_packages,  \* the registry (module global)
    sys_modules,         \* the interpreter's module cache (registry names)
    pc,                  \* where the caller of this module is
    call,                \* the top-level call in progress / last made
    outcome,             \* how that call ended
    wi,                  \* wtf_check: index into warnings of the rule in hand
    pending,             \* wtf_check: a rule has returned, not yet forwarded
    trace,               \* wtf_check: calls made so far, in order
    examined,            \* names the last rule invocation passed to a predicate
    first,               \* the first call and its outcome, once repeated
    procs                \* rules running as concurrent processes

env == <<importable, module_file, dpkg_db, host_os, order>>
seqvars == <<pc, call, outcome, wi, pending, trace, examined, first>>
vars == <<importable, module_file, dpkg_db, host_os, order, py_to_deb_packages,
          sys_modules, pc, call, outcome, wi, pending, trace, examined, first,
          procs>>

----------------------------------------------------------------------------
(* Bounds of the explored environments *)

\* At most this many registry packages are in another state than "installed
\* from its Debian package" in the environments of Spec.
MaxVaried == 2

\* The same, for the specifications that repeat calls or interleave rules.
MaxVariedSmall == 1

----------------------------------------------------------------------------
(* Python values *)

None == [t |-> "None", b |-> FALSE, s |-> <<>>]
Bool(b) == [t |-> "bool", b |-> b, s |-> <<>>]
Str(s) == [t |-> "str", b |-> FALSE, s |-> s]

NoExc == "none"
ImportError == "ImportError"
OsNotDetected == "OsNotDetected"

\* a call that returned v / a call that raised e
Returned(v, modules, ex) == [exc |-> NoExc, val |-> v, modules |-> modules, examined |-> ex]
Raised(e, modules) == [exc |-> e, val |-> None, modules |-> modules, examined |-> <<>>]

----------------------------------------------------------------------------
(* The registry and the environment *)

py_to_deb_packages_literal ==
    [k \in {"bloom", "catkin", "rospkg", "rosinstall", "rosrelease", "rosdep"} |->
        CASE k = "bloom" -> "python-bloom"
          [] k = "catkin" -> "python-catkin"
          [] k = "rospkg" -> "python-rospkg"
          [] k = "rosinstall" -> "python-rosinstall"
          [] k = "rosrelease" -> "python-rosrelease"
          [] k = "rosdep" -> "python-rosdep"]

Keys == DOMAIN py_to_deb_packages_literal
DebNames == {py_to_deb_packages_literal[k] : k \in Keys}

\* the order the dict literal is written in, and its reverse: a dict iterates
\* in an order fixed for the life of the (unmodified) dict, but which order
\* that is depends on the interpreter
InsertionOrder == <<"bloom", "catkin", "rospkg", "rosinstall", "rosrelease", "rosdep">>
Reverse(s) == [k \in 1..Len(s) |-> s[Len(s) + 1 - k]]
IterationOrders == {InsertionOrder, Reverse(InsertionOrder)}

\* '/usr/local'
UsrLocal == <<"/", "u", "s", "r", "/", "l", "o", "c", "a", "l">>
\* '/usr/lib/p': where a Debian package puts a module
DistPath == <<"/", "u", "s", "r", "/", "l", "i", "b", "/", "p">>
\* '/usr/local/lib/p': where pip puts it
PipPath == UsrLocal \o <<"/", "l", "i", "b", "/", "p">>
\* '/opt/usr/local/p': a private prefix that holds the same substring
OptPath == <<"/", "o", "p", "t">> \o UsrLocal \o <<"/", "p">>
Paths == {DistPath, PipPath, OptPath}
NoFile == <<>>

\* what detect_os()[0] can be; Undetected stands for detect_os raising
OsNames == {"ubuntu", "debian"}
Undetected == "<OsNotDetected>"

\* the state of one package on the host
PkgStates ==
    {[loadable |-> TRUE, file |-> f, deb |-> d] : f \in Paths, d \in BOOLEAN}
    \cup {[loadable |-> FALSE, file |-> NoFile, deb |-> d] : d \in BOOLEAN}
CleanState == [loadable |-> TRUE, file |-> DistPath, deb |-> TRUE]

EnvInit(maxVaried, orders) ==
    \E V \in {W \in SUBSET Keys : Cardinality(W) <= maxVaried} :
    \E st \in [V -> PkgStates] :
        LET state(k) == IF k \in V THEN st[k] ELSE CleanState IN
        /\ importable = {k \in Keys : state(k).loadable}
        /\ module_file = [k \in Keys |-> state(k).file]
        /\ dpkg_db = {py_to_deb_packages_literal[k] : k \in {j \in Keys : state(j).deb}}
        /\ host_os \in OsNames \cup {Undetected}
        /\ order \in orders

----------------------------------------------------------------------------
(* Collaborators: the module loader, dpkg, the OS detector *)

\* importlib.import_module(name): a cached module is returned as it is, a
\* module the loader finds is loaded and cached, anything else is ImportError
\* (a module whose own code raises another exception while it is loaded is
\* not among the environments explored)
import_module(name, modules) ==
    IF name \in modules \/ name \in importable
    THEN Returned(Str(module_file[name]), modules \cup {name}, <<>>)
    ELSE Raised(ImportError, modules)

\* exit status of `dpkg -l <deb_pkg>` run by the shell
dpkg_l(deb_pkg) == IF deb_pkg \in dpkg_db THEN 0 ELSE 1

----------------------------------------------------------------------------
(* The predicates *)

\* get_host_os(): `import rospkg.os_detect`, then OsDetect().detect_os()[0]
get_host_os(modules) ==
    LET imp == import_module("rospkg", modules) IN
    IF imp.exc # NoExc THEN Raised(imp.exc, imp.modules)
    ELSE IF host_os = Undetected THEN Raised(OsNotDetected, imp.modules)
    ELSE Returned(Str(<<host_os>>), imp.modules, <<>>)

\* is_host_os_ubuntu() as it would be with an `except: return False` around
\* the comparison
is_host_os_ubuntu_swallows(modules) ==
    LET h == get_host_os(modules) IN
    Returned(Bool(h.exc = NoExc /\ h.val = Str(<<"ubuntu">>)), h.modules, <<>>)

\* is_host_os_ubuntu(): get_host_os() == 'ubuntu', with no handler around it
is_host_os_ubuntu(modules) ==
    LET h == get_host_os(modules) IN
    IF h.exc # NoExc THEN Raised(h.exc, h.modules)
    ELSE Returned(Bool(h.val = Str(<<"ubuntu">>)), h.modules, <<>>)

\* is_debian_package_installed(deb_pkg): subprocess.call(...) == 0
is_debian_package_installed(deb_pkg) == dpkg_l(deb_pkg) = 0

\* is_a_pip_path_on_ubuntu as path.startswith('/usr/local')
is_a_pip_path_on_ubuntu_startswith(path) ==
    SubSeq(path, 1, Len(UsrLocal)) = UsrLocal

\* is_a_pip_path_on_ubuntu(path): '/usr/local' in path
is_a_pip_path_on_ubuntu(path) ==
    \E k \in 1..(Len(path) - Len(UsrLocal) + 1) :
        SubSeq(path, k, k + Len(UsrLocal) - 1) = UsrLocal

\* is_python_package_installed as "this call loaded the module"
is_python_package_installed_newly(python_pkg, modules) ==
    LET imp == import_module(python_pkg, modules) IN
    IF imp.exc = ImportError \/ python_pkg \in modules
    THEN Returned(Bool(FALSE), imp.modules, <<>>)
    ELSE Returned(Bool(TRUE), imp.modules, <<>>)

\* is_python_package_installed(python_pkg): True, or False on ImportError
is_python_package_installed(python_pkg, modules) ==
    LET imp == import_module(python_pkg, modules) IN
    IF imp.exc = ImportError THEN Returned(Bool(FALSE), imp.modules, <<>>)
    ELSE Returned(Bool(TRUE), imp.modules, <<>>)

\* is_python_package_installed_via_pip_on_ubuntu looking only at modules
\* that were not loaded before the call
is_python_package_installed_via_pip_on_ubuntu_fresh_only(python_pkg, modules) ==
    LET pkg_handle == import_module(python_pkg, modules) IN
    IF pkg_handle.exc = ImportError \/ python_pkg \in modules
    THEN Returned(Bool(FALSE), pkg_handle.modules, <<>>)
    ELSE Returned(Bool(is_a_pip_path_on_ubuntu(pkg_handle.val.s)), pkg_handle.modules, <<>>)

\* is_python_package_installed_via_pip_on_ubuntu(python_pkg)
is_python_package_installed_via_pip_on_ubuntu(python_pkg, modules) ==
    LET pkg_handle == import_module(python_pkg, modules) IN
    IF pkg_handle.exc = ImportError THEN Returned(Bool(FALSE), pkg_handle.modules, <<>>)
    ELSE Returned(Bool(is_a_pip_path_on_ubuntu(pkg_handle.val.s)), pkg_handle.modules, <<>>)

----------------------------------------------------------------------------
(* The rules.  A rule's frame is [warn_str, modules, examined]: its local  *)
(* warn_str, the module cache as the rule leaves it, and the names it has  *)
(* handed to a predicate.                                                  *)

python_module_install_check_name == "python_module_install_check"
pip_install_check_on_ubuntu_name == "pip_install_check_on_ubuntu"
deb_install_check_on_ubuntu_name == "deb_install_check_on_ubuntu"

NewFrame(modules) == [warn_str |-> <<>>, modules |-> modules, examined |-> <<>>]

\* the pass of python_module_install_check with the `not` of its test lost
python_module_install_check_body_without_not(py_pkg, fr) ==
    LET p == is_python_package_installed(py_pkg, fr.modules) IN
    [warn_str |-> IF p.val.b THEN fr.warn_str \o <<py_pkg>> \o <<" -- ">>
                  ELSE fr.warn_str,
     modules |-> p.modules,
     examined |-> Append(fr.examined, py_pkg)]

\* one pass of the loop of python_module_install_check
python_module_install_check_body(py_pkg, fr) ==
    LET p == is_python_package_installed(py_pkg, fr.modules) IN
    [warn_str |-> IF ~p.val.b THEN fr.warn_str \o <<py_pkg>> \o <<" -- ">>
                  ELSE fr.warn_str,
     modules |-> p.modules,
     examined |-> Append(fr.examined, py_pkg)]

\* the pass of deb_install_check_on_ubuntu asking dpkg about py_pkg, not deb_pkg
deb_install_check_on_ubuntu_body_asks_py_pkg(py_pkg, fr) ==
    LET deb_pkg == py_to_deb_packages[py_pkg] IN
    [warn_str |-> IF ~is_debian_package_installed(py_pkg)
                  THEN fr.warn_str \o <<py_pkg>> \o <<" (">> \o <<deb_pkg>> \o <<") -- ">>
                  ELSE fr.warn_str,
     modules |-> fr.modules,
     examined |-> Append(fr.examined, py_pkg)]

\* one pass of the loop of deb_install_check_on_ubuntu
deb_install_check_on_ubuntu_body(py_pkg, fr) ==
    LET deb_pkg == py_to_deb_packages[py_pkg] IN
    [warn_str |-> IF ~is_debian_package_installed(deb_pkg)
                  THEN fr.warn_str \o <<py_pkg>> \o <<" (">> \o <<deb_pkg>> \o <<") -- ">>
                  ELSE fr.warn_str,
     modules |-> fr.modules,
     examined |-> Append(fr.examined, py_pkg)]

\* one pass of the loop of pip_install_check_on_ubuntu
pip_install_check_on_ubuntu_body(py_pkg, fr) ==
    LET p == is_python_package_installed_via_pip_on_ubuntu(py_pkg, fr.modules) IN
    [warn_str |-> IF p.val.b THEN fr.warn_str \o <<py_pkg>> \o <<" -- ">>
                  ELSE fr.warn_str,
     modules |-> p.modules,
     examined |-> Append(fr.examined, py_pkg)]

rule_body(rule, py_pkg, fr) ==
    CASE rule = python_module_install_check_name ->
            python_module_install_check_body(py_pkg, fr)
      [] rule = pip_install_check_on_ubuntu_name ->
            pip_install_check_on_ubuntu_body(py_pkg, fr)
      [] rule = deb_install_check_on_ubuntu_name ->
            deb_install_check_on_ubuntu_body(py_pkg, fr)

\* the loop stopping one key short
RECURSIVE for_py_pkg_in_py_to_deb_packages_but_last(_, _, _)
for_py_pkg_in_py_to_deb_packages_but_last(rule, k, fr) ==
    IF k >= Len(order) THEN fr
    ELSE for_py_pkg_in_py_to_deb_packages_but_last(rule, k + 1,
                                                   rule_body(rule, order[k], fr))

\* `for py_pkg in py_to_deb_packages:` from the k-th key on
RECURSIVE for_py_pkg_in_py_to_deb_packages(_, _, _)
for_py_pkg_in_py_to_deb_packages(rule, k, fr) ==
    IF k > Len(order) THEN fr
    ELSE for_py_pkg_in_py_to_deb_packages(rule, k + 1, rule_body(rule, order[k], fr))

\* `if (warn_str != ''): return warn_str`, and None off the end otherwise
return_warn_str(fr) ==
    Returned(IF fr.warn_str # <<>> THEN Str(fr.warn_str) ELSE None,
             fr.modules, fr.examined)

\* the test a rule makes before its loop: the two Ubuntu rules ask
\* is_host_os_ubuntu(), python_module_install_check asks nothing
rule_guard(rule, modules) ==
    IF rule = python_module_install_check_name
    THEN Returned(Bool(TRUE), modules, <<>>)
    ELSE is_host_os_ubuntu(modules)

python_module_install_check(modules) ==
    return_warn_str(for_py_pkg_in_py_to_deb_packages(
        python_module_install_check_name, 1, NewFrame(modules)))

deb_install_check_on_ubuntu(modules) ==
    LET u == is_host_os_ubuntu(modules) IN
    IF u.exc # NoExc THEN Raised(u.exc, u.modules)
    ELSE IF u.val.b
         THEN return_warn_str(for_py_pkg_in_py_to_deb_packages(
                  deb_install_check_on_ubuntu_name, 1, NewFrame(u.modules)))
         ELSE Returned(None, u.modules, <<>>)

pip_install_check_on_ubuntu(modules) ==
    LET u == is_host_os_ubuntu(modules) IN
    IF u.exc # NoExc THEN Raised(u.exc, u.modules)
    ELSE IF u.val.b
         THEN return_warn_str(for_py_pkg_in_py_to_deb_packages(
                  pip_install_check_on_ubuntu_name, 1, NewFrame(u.modules)))
         ELSE Returned(None, u.modules, <<>>)

\* r[0](ctx) for an entry r of warnings
call_rule(rule, modules) ==
    CASE rule = python_module_install_check_name -> python_module_install_check(modules)
      [] rule = pip_install_check_on_ubuntu_name -> pip_install_check_on_ubuntu(modules)
      [] rule = deb_install_check_on_ubuntu_name -> deb_install_check_on_ubuntu(modules)

\* warnings with its first two entries swapped
warnings_pip_first == <<pip_install_check_on_ubuntu_name,
                        python_module_install_check_name,
                        deb_install_check_on_ubuntu_name>>
\* errors with a rule in it
errors_with_a_rule == <<python_module_install_check_name>>

\* the rule functions of the module-level lists, in list order
warnings == <<python_module_install_check_name,
              pip_install_check_on_ubuntu_name,
              deb_install_check_on_ubuntu_name>>
errors == <<>>

----------------------------------------------------------------------------
(* The caller: wtf_check, or a direct call of one rule or one predicate *)

NoCall == [fn |-> "", arg |-> <<>>]
NoOutcome == [exc |-> NoExc, val |-> None]
NoFirst == [call |-> NoCall, outcome |-> NoOutcome, trace |-> <<>>]
OutcomeOf(o) == [exc |-> o.exc, val |-> o.val]

CallEvent(rule) == [ev |-> "call", rule |-> rule, result |-> None]
WarningRuleEvent(rule, result) == [ev |-> "warning_rule", rule |-> rule, result |-> result]
ErrorRuleEvent(rule, result) == [ev |-> "error_rule", rule |-> rule, result |-> result]

\* a repeated call repeats the first one
Repeats(c) == first = NoFirst \/ c = first.call

PredicateCalls ==
    {[fn |-> f, arg |-> <<k>>] :
        f \in {"is_python_package_installed",
               "is_python_package_installed_via_pip_on_ubuntu"}, k \in Keys}
    \cup {[fn |-> "is_debian_package_installed", arg |-> <<d>>] : d \in DebNames}
    \cup {[fn |-> "is_a_pip_path_on_ubuntu", arg |-> f] : f \in Paths}
    \cup {[fn |-> f, arg |-> <<>>] : f \in {"get_host_os", "is_host_os_ubuntu"}}

call_predicate(c, modules) ==
    CASE c.fn = "is_python_package_installed" ->
            is_python_package_installed(c.arg[1], modules)
      [] c.fn = "is_python_package_installed_via_pip_on_ubuntu" ->
            is_python_package_installed_via_pip_on_ubuntu(c.arg[1], modules)
      [] c.fn = "is_debian_package_installed" ->
            Returned(Bool(is_debian_package_installed(c.arg[1])), modules, <<>>)
      [] c.fn = "is_a_pip_path_on_ubuntu" ->
            Returned(Bool(is_a_pip_path_on_ubuntu(c.arg)), modules, <<>>)
      [] c.fn = "get_host_os" -> get_host_os(modules)
      [] c.fn = "is_host_os_ubuntu" -> is_host_os_ubuntu(modules)

SeqInit ==
    /\ py_to_deb_packages = py_to_deb_packages_literal
    /\ sys_modules = {}
    /\ pc = "idle"
    /\ call = NoCall
    /\ outcome = NoOutcome
    /\ wi = 1
    /\ pending = FALSE
    /\ trace = <<>>
    /\ examined = <<>>
    /\ first = NoFirst
    /\ procs = <<>>

Init == EnvInit(MaxVaried, IterationOrders) /\ SeqInit

\* a direct call of one predicate
CallPredicate ==
    /\ pc = "idle"
    /\ \E c \in PredicateCalls :
        LET o == call_predicate(c, sys_modules) IN
        /\ Repeats(c)
        /\ call' = c
        /\ outcome' = OutcomeOf(o)
        /\ sys_modules' = o.modules
        /\ pc' = IF o.exc = NoExc THEN "returned" ELSE "raised"
    /\ UNCHANGED <<env, py_to_deb_packages, wi, pending, trace, examined, first, procs>>

\* a direct call of one rule, rule(ctx)
CallRule ==
    /\ pc = "idle"
    /\ \E k \in 1..Len(warnings) :
        LET c == [fn |-> warnings[k], arg |-> <<>>]
            o == call_rule(warnings[k], sys_modules) IN
        /\ Repeats(c)
        /\ call' = c
        /\ outcome' = OutcomeOf(o)
        /\ examined' = o.examined
        /\ sys_modules' = o.modules
        /\ pc' = IF o.exc = NoExc THEN "returned" ELSE "raised"
    /\ UNCHANGED <<env, py_to_deb_packages, wi, pending, trace, first, procs>>

\* wtf_check(ctx) is entered
WtfCheck ==
    /\ pc = "idle"
    /\ Repeats([fn |-> "wtf_check", arg |-> <<>>])
    /\ call' = [fn |-> "wtf_check", arg |-> <<>>]
    /\ pc' = "wtf_check"
    /\ wi' = 1
    /\ pending' = FALSE
    /\ trace' = <<>>
    /\ UNCHANGED <<env, py_to_deb_packages, sys_modules, outcome, examined, first, procs>>

\* `r[0](ctx)` for the next r of warnings; an exception leaves wtf_check
WtfCallRule ==
    /\ pc = "wtf_check"
    /\ ~pending
    /\ wi <= Len(warnings)
    /\ LET o == call_rule(warnings[wi], sys_modules) IN
        /\ trace' = Append(trace, CallEvent(warnings[wi]))
        /\ sys_modules' = o.modules
        /\ outcome' = OutcomeOf(o)
        /\ examined' = o.examined
        /\ IF o.exc = NoExc
           THEN pending' = TRUE /\ pc' = pc
           ELSE pending' = FALSE /\ pc' = "raised"
    /\ UNCHANGED <<env, py_to_deb_packages, call, wi, first, procs>>

\* `warning_rule(r, <the value the rule returned>, ctx)`
WtfWarningRule ==
    /\ pc = "wtf_check"
    /\ pending
    /\ trace' = Append(trace, WarningRuleEvent(warnings[wi], outcome.val))
    /\ pending' = FALSE
    /\ wi' = wi + 1
    /\ UNCHANGED <<env, py_to_deb_packages, sys_modules, pc, call, outcome,
                   examined, first, procs>>

\* `for r in errors: error_rule(r, r[0](ctx), ctx)`, and wtf_check returns
WtfErrors ==
    /\ pc = "wtf_check"
    /\ ~pending
    /\ wi > Len(warnings)
    /\ trace' = trace \o [k \in 1..Len(errors) |-> ErrorRuleEvent(errors[k], None)]
    /\ outcome' = NoOutcome
    /\ pc' = "returned"
    /\ UNCHANGED <<env, py_to_deb_packages, sys_modules, call, wi, pending,
                   examined, first, procs>>

Next ==
    \/ CallPredicate
    \/ CallRule
    \/ WtfCheck
    \/ WtfCallRule
    \/ WtfWarningRule
    \/ WtfErrors

Spec == Init /\ [][Next]_vars

----------------------------------------------------------------------------
(* The same call made a second time in the same process *)

InitTwice == EnvInit(MaxVariedSmall, IterationOrders) /\ SeqInit

\* the first call is over; the caller is about to repeat it
Again ==
    /\ pc \in {"returned", "raised"}
    /\ first = NoFirst
    /\ first' = [call |-> call, outcome |-> outcome, trace |-> trace]
    /\ pc' = "idle"
    /\ call' = NoCall
    /\ outcome' = NoOutcome
    /\ wi' = 1
    /\ pending' = FALSE
    /\ trace' = <<>>
    /\ examined' = <<>>
    /\ UNCHANGED <<env, py_to_deb_packages, sys_modules, procs>>

NextTwice ==
    \/ CallPredicate
    \/ CallRule
    \/ WtfCheck
    \/ WtfCallRule
    \/ WtfWarningRule
    \/ WtfErrors
    \/ Again

SpecTwice == InitTwice /\ [][NextTwice]_vars

----------------------------------------------------------------------------
(* The three rules as concurrent processes of one interpreter: each runs   *)
(* its own frame, one predicate call at a time, on the shared module cache *)

Rules == {warnings[k] : k \in 1..Len(warnings)}

NewProc == [pc |-> "start", k |-> 1, warn_str |-> <<>>, examined |-> <<>>,
            out |-> NoOutcome]

InitConc ==
    /\ EnvInit(MaxVariedSmall, {InsertionOrder})
    /\ py_to_deb_packages = py_to_deb_packages_literal
    /\ sys_modules = {}
    /\ pc = "concurrent"
    /\ call = NoCall
    /\ outcome = NoOutcome
    /\ wi = 1
    /\ pending = FALSE
    /\ trace = <<>>
    /\ examined = <<>>
    /\ first = NoFirst
    /\ procs = [r \in Rules |-> NewProc]

\* the rule is entered and makes its test of the host
ProcEnter(rule) ==
    /\ pc = "concurrent"
    /\ procs[rule].pc = "start"
    /\ LET g == rule_guard(rule, sys_modules) IN
        /\ sys_modules' = g.modules
        /\ procs' = [procs EXCEPT ![rule] =
              IF g.exc # NoExc
              THEN [@ EXCEPT !.pc = "raised", !.out = OutcomeOf(Raised(g.exc, g.modules))]
              ELSE IF g.val.b
                   THEN [@ EXCEPT !.pc = "loop"]
                   ELSE [@ EXCEPT !.pc = "returned",
                                  !.out = OutcomeOf(Returned(None, g.modules, <<>>))]]
    /\ UNCHANGED <<env, py_to_deb_packages, seqvars>>

\* one pass of the rule's loop
ProcStep(rule) ==
    /\ pc = "concurrent"
    /\ procs[rule].pc = "loop"
    /\ procs[rule].k <= Len(order)
    /\ LET fr == rule_body(rule, order[procs[rule].k],
                           [warn_str |-> procs[rule].warn_str,
                            modules |-> sys_modules,
                            examined |-> procs[rule].examined]) IN
        /\ sys_modules' = fr.modules
        /\ procs' = [procs EXCEPT ![rule] =
              [@ EXCEPT !.k = @ + 1, !.warn_str = fr.warn_str,
                        !.examined = fr.examined]]
    /\ UNCHANGED <<env, py_to_deb_packages, seqvars>>

\* the loop is over and the rule returns
ProcReturn(rule) ==
    /\ pc = "concurrent"
    /\ procs[rule].pc = "loop"
    /\ procs[rule].k > Len(order)
    /\ procs' = [procs EXCEPT ![rule] =
          [@ EXCEPT !.pc = "returned",
                    !.out = OutcomeOf(return_warn_str(
                        [warn_str |-> procs[rule].warn_str,
                         modules |-> sys_modules,
                         examined |-> procs[rule].examined]))]]
    /\ UNCHANGED <<env, py_to_deb_packages, sys_modules, seqvars>>

NextConc ==
    \E rule \in Rules :
        \/ ProcEnter(rule)
        \/ ProcStep(rule)
        \/ ProcReturn(rule)

SpecConc == InitConc /\ [][NextConc]_vars

----------------------------------------------------------------------------
(* Vocabulary of the properties *)

RuleNames == {"python_module_install_check", "pip_install_check_on_ubuntu",
              "deb_install_check_on_ubuntu"}

\* the outcomes of the finished invocations of a rule that the state shows:
\* a direct call, a result wtf_check forwarded, an exception that ended
\* wtf_check inside the rule
RuleOutcomes(rule) ==
    (IF call.fn = rule /\ pc \in {"returned", "raised"} THEN {outcome} ELSE {})
    \cup {[exc |-> NoExc, val |-> trace[j].result] :
            j \in {i \in 1..Len(trace) :
                     trace[i].ev = "warning_rule" /\ trace[i].rule = rule}}
    \cup (IF /\ call.fn = "wtf_check" /\ pc = "raised" /\ trace # <<>>
             /\ trace[Len(trace)].rule = rule
          THEN {outcome} ELSE {})

\* the string made of each name followed by the separator, or None for no name
Joined(names) ==
    IF names = <<>> THEN None
    ELSE Str([j \in 1..(2 * Len(names)) |->
                 IF j % 2 = 1 THEN names[(j + 1) \div 2] ELSE " -- "])

\* the string made of "<name> (<native name>)" and the separator for each name
JoinedWithNative(names) ==
    IF names = <<>> THEN None
    ELSE Str([j \in 1..(4 * Len(names)) |->
                 CASE j % 4 = 1 -> names[(j + 3) \div 4]
                   [] j % 4 = 2 -> " ("
                   [] j % 4 = 3 -> py_to_deb_packages_literal[names[(j + 3) \div 4]]
                   [] j % 4 = 0 -> ") -- "])

\* the path holds '/usr/local' somewhere: path = a + '/usr/local' + b
HoldsUsrLocal(path) ==
    \E i \in 0..Len(path) :
        path = SubSeq(path, 1, i) \o UsrLocal
               \o SubSeq(path, i + Len(UsrLocal) + 1, Len(path))

NotImportable(k) == k \notin importable
PipInstalled(k) == k \in importable /\ HoldsUsrLocal(module_file[k])
NoDebianPackage(k) == py_to_deb_packages_literal[k] \notin dpkg_db

\* the detector can be reached and names the host's distribution
Detected == "rospkg" \in importable /\ host_os \in OsNames

----------------------------------------------------------------------------
(* C1 *)

\* C1: python_module_install_check always returns; what it returns is None
\* when every registry name is importable and otherwise the string of exactly
\* the names that are not importable, once each, in iteration order, each
\* followed by " -- "; never the empty string; whatever the host's distribution.
C1_MissingModules ==
    \A o \in RuleOutcomes("python_module_install_check") :
        /\ o.exc = NoExc
        /\ o.val = Joined(SelectSeq(order, NotImportable))
        /\ o.val # Str(<<>>)
        /\ (o.val = None) <=> (Keys \subseteq importable)

\* two names are missing on a host that is not Ubuntu, and are reported
C1_Witness ==
    /\ host_os = "debian"
    /\ Cardinality(Keys \ importable) = 2
    /\ \E o \in RuleOutcomes("python_module_install_check") :
          o.val.t = "str" /\ Len(o.val.s) = 4

----------------------------------------------------------------------------
(* C2 *)

C2_WitnessOffUbuntu ==
    /\ Detected /\ host_os = "debian"
    /\ \E k \in Keys : PipInstalled(k)
    /\ None \in {o.val : o \in RuleOutcomes("pip_install_check_on_ubuntu")}

----------------------------------------------------------------------------
(* C3 *)

----------------------------------------------------------------------------
(* C4 *)

\* Missing-Modules, Pip-Installed, Missing-Native-Packages
DispatchOrder == <<"python_module_install_check", "pip_install_check_on_ubuntu",
                   "deb_install_check_on_ubuntu">>

\* the value the rule gives in this environment when called on its own
ValueAlone(rule) == call_rule(rule, {}).val

\* C4: during wtf_check the calls alternate: the j-th rule of the fixed order
\* is called, then warning_rule is called with that rule and the value it
\* returned, then the next rule is called; error_rule is never called; and a
\* run that returns has called each of the three rules, and warning_rule for
\* each, exactly once.
C4_DispatchOrder ==
    call.fn = "wtf_check" =>
        /\ Len(trace) <= 2 * Len(DispatchOrder)
        /\ \A j \in 1..Len(trace) :
              /\ trace[j].rule = DispatchOrder[(j + 1) \div 2]
              /\ trace[j].ev = IF j % 2 = 1 THEN "call" ELSE "warning_rule"
              /\ j % 2 = 0 => trace[j].result = ValueAlone(trace[j].rule)
        /\ pc = "returned" => Len(trace) = 2 * Len(DispatchOrder)

\* a run has returned after forwarding one warning string and two no-signals
C4_Witness ==
    /\ call.fn = "wtf_check" /\ pc = "returned"
    /\ trace[2].result.t = "str"
    /\ trace[4].result = None
    /\ trace[6].result = None

----------------------------------------------------------------------------
(* C5 *)

Finished(fn) == call.fn = fn /\ pc \in {"returned", "raised"}

\* C5: absence is never thrown upward: the three predicates return False for
\* a registry package that does not load and for a native package whose query
\* exits non-zero, and no rule and no wtf_check run ends with the ImportError
\* of a registry package that does not load.
C5_AbsenceNeverRaised ==
    /\ Finished("is_python_package_installed") /\ call.arg[1] \notin importable
          => pc = "returned" /\ outcome.val = Bool(FALSE)
    /\ Finished("is_python_package_installed_via_pip_on_ubuntu")
          /\ call.arg[1] \notin importable
          => pc = "returned" /\ outcome.val = Bool(FALSE)
    /\ Finished("is_debian_package_installed") /\ call.arg[1] \notin dpkg_db
          => pc = "returned" /\ outcome.val = Bool(FALSE)
    /\ call.fn \in RuleNames \cup {"wtf_check"} /\ pc = "raised"
          => outcome.exc # ImportError

\* the part of C5 that is about the predicates alone
C5_PredicatesReturnFalse ==
    /\ Finished("is_python_package_installed") /\ call.arg[1] \notin importable
          => pc = "returned" /\ outcome.val = Bool(FALSE)
    /\ Finished("is_python_package_installed_via_pip_on_ubuntu")
          /\ call.arg[1] \notin importable
          => pc = "returned" /\ outcome.val = Bool(FALSE)
    /\ Finished("is_debian_package_installed") /\ call.arg[1] \notin dpkg_db
          => pc = "returned" /\ outcome.val = Bool(FALSE)

----------------------------------------------------------------------------
(* C6 *)

UbuntuRules == {"pip_install_check_on_ubuntu", "deb_install_check_on_ubuntu"}

\* C6: when the detector cannot tell the distribution, no invocation of an
\* Ubuntu rule returns a value (None or a string) and no wtf_check run
\* returns; the detector's exception is what ends is_host_os_ubuntu, both
\* Ubuntu rules and wtf_check.
C6_DetectionFailurePropagates ==
    host_os = Undetected =>
        /\ \A rule \in UbuntuRules : \A o \in RuleOutcomes(rule) :
              /\ o.exc # NoExc
              /\ "rospkg" \in importable => o.exc = OsNotDetected
        /\ Finished("is_host_os_ubuntu") =>
              /\ pc = "raised"
              /\ "rospkg" \in importable => outcome.exc = OsNotDetected
        /\ call.fn = "wtf_check" =>
              /\ pc # "returned"
              /\ pc = "raised" /\ "rospkg" \in importable =>
                    outcome.exc = OsNotDetected

\* deb_install_check_on_ubuntu, called directly, ended with the detector's
\* exception
C6_Witness ==
    /\ host_os = Undetected
    /\ call.fn = "deb_install_check_on_ubuntu"
    /\ pc = "raised"
    /\ outcome.exc = OsNotDetected

\* wtf_check ended with the detector's exception
C6_WitnessWtfCheck ==
    /\ host_os = Undetected
    /\ call.fn = "wtf_check"
    /\ pc = "raised"
    /\ outcome.exc = OsNotDetected

----------------------------------------------------------------------------
(* C10 *)

\* C10: when wtf_check ends with the detector's exception, exactly three
\* calls have been made: python_module_install_check, warning_rule with its
\* value, pip_install_check_on_ubuntu; so warning_rule was called once, for
\* Missing-Modules, and deb_install_check_on_ubuntu was not called.
C10_AbortIsPartial ==
    call.fn = "wtf_check" /\ pc = "raised" /\ outcome.exc = OsNotDetected =>
        trace = << CallEvent("python_module_install_check"),
                   WarningRuleEvent("python_module_install_check",
                                    Joined(SelectSeq(order, NotImportable))),
                   CallEvent("pip_install_check_on_ubuntu") >>

\* such a run, in which the forwarded Missing-Modules value is a string
C10_Witness ==
    /\ call.fn = "wtf_check" /\ pc = "raised" /\ outcome.exc = OsNotDetected
    /\ Len(trace) = 3
    /\ trace[2].result.t = "str"

----------------------------------------------------------------------------
(* C9 *)

\* a rule invocation has just returned: examined and outcome are its own
RuleJustReturned ==
    \/ call.fn \in RuleNames /\ pc = "returned"
    \/ call.fn = "wtf_check" /\ pc = "wtf_check" /\ pending
LastRule == IF call.fn \in RuleNames THEN call.fn ELSE trace[Len(trace)].rule

\* every key exactly once, and nothing else
EachKeyOnce(names) ==
    /\ Len(names) = Cardinality(Keys)
    /\ {names[j] : j \in 1..Len(names)} = Keys

\* every name in the rule's string is a registry key, and in the native rule
\* it stands with the native name the registry gives it
OutputWithinRegistry(rule, val) ==
    val.t = "str" =>
        \A j \in 1..Len(val.s) :
            IF rule = "deb_install_check_on_ubuntu"
            THEN /\ j % 4 = 1 => val.s[j] \in Keys
                 /\ j % 4 = 3 => val.s[j] = py_to_deb_packages_literal[val.s[j - 2]]
            ELSE j % 2 = 1 => val.s[j] \in Keys

\* C9 as claimed: every rule invocation hands every registry key to its
\* predicate exactly once and no other name, every name in a rule's output is
\* a registry key (with its own native name), and the registry never changes.
C9_EveryRuleExaminesEveryKey ==
    /\ py_to_deb_packages = py_to_deb_packages_literal
    /\ RuleJustReturned =>
          /\ EachKeyOnce(examined)
          /\ OutputWithinRegistry(LastRule, outcome.val)

\* C9 amended: an invocation that reaches its loop (python_module_install_check
\* always, the two Ubuntu rules when the host is detected as 'ubuntu') hands
\* every registry key to its predicate exactly once, in iteration order, and
\* no other name; an Ubuntu rule on another distribution examines no name and
\* returns None; every name in a rule's output is a registry key (with its own
\* native name); the registry never changes.
C9_LoopExaminesEveryKey ==
    /\ py_to_deb_packages = py_to_deb_packages_literal
    /\ RuleJustReturned =>
          /\ OutputWithinRegistry(LastRule, outcome.val)
          /\ IF LastRule = "python_module_install_check" \/ host_os = "ubuntu"
             THEN examined = order /\ EachKeyOnce(examined)
             ELSE examined = <<>> /\ outcome.val = None

\* the native rule returned a string on Ubuntu after going through the keys
\* in the reverse of the order they are written in
C9_Witness ==
    /\ RuleJustReturned
    /\ LastRule = "deb_install_check_on_ubuntu"
    /\ host_os = "ubuntu"
    /\ outcome.val.t = "str"
    /\ examined = Reverse(InsertionOrder)

----------------------------------------------------------------------------
(* C8 *)

\* C8: a call repeated in the same process, with the environment as it was,
\* ends as it ended the first time: the same value or the same exception,
\* and for wtf_check the same calls with the same values, although the first
\* call may have left modules in the cache.
C8_Idempotent ==
    first # NoFirst /\ pc \in {"returned", "raised"} =>
        /\ call = first.call
        /\ outcome = first.outcome
        /\ trace = first.trace

\* pip_install_check_on_ubuntu was called again, with every module it lists
\* already in the cache, and gave its string again
C8_Witness ==
    /\ first # NoFirst /\ pc = "returned"
    /\ call.fn = "pip_install_check_on_ubuntu"
    /\ outcome.val.t = "str"
    /\ sys_modules = importable

----------------------------------------------------------------------------
(* C7 *)

ProcDone(rule) == procs[rule].pc \in {"returned", "raised"}

\* C7: however the steps of the three rules interleave, each rule ends as it
\* ends when it is called alone in a fresh interpreter; and no step changes
\* the registry or anything of the environment: the module cache is all that
\* changes, and it only grows, by modules that are importable.
C7_OrderIndependent ==
    /\ [](\A rule \in Rules :
            ProcDone(rule) => procs[rule].out = OutcomeOf(call_rule(rule, {})))
    /\ [][/\ UNCHANGED <<env, py_to_deb_packages>>
          /\ sys_modules \subseteq sys_modules'
          /\ sys_modules' \subseteq importable]_vars

\* python_module_install_check has returned and left every importable module
\* in the cache, while pip_install_check_on_ubuntu, half way through its
\* loop, has listed a name and deb_install_check_on_ubuntu has not started
C7_Witness ==
    /\ pc = "concurrent"
    /\ procs["python_module_install_check"].pc = "returned"
    /\ sys_modules = importable
    /\ procs["pip_install_check_on_ubuntu"].pc = "loop"
    /\ procs["pip_install_check_on_ubuntu"].k = 4
    /\ procs["pip_install_check_on_ubuntu"].warn_str # <<>>
    /\ procs["deb_install_check_on_ubuntu"].pc = "start"

====
